---- MODULE Spec2Model ----
(***************************************************************************)
(* The audio slice of coqui-mentor-web (store/slices/audioSlice.ts): the   *)
(* recording state machine, its reducers and the lifecycle events of the   *)
(* initializeAudio and analyzeRecording thunks; and the pitch detector     *)
(* (utils/audio/pitchDetection.ts) with its smoothing buffer.              *)
(*                                                                         *)
(* A nullable value of the source (T | null, T | undefined) is a sequence  *)
(* of length at most one: None for null/undefined, Some(v) for a value.    *)
(***************************************************************************)
EXTENDS Integers, Sequences, FiniteSets, TLC

VARIABLES
    status,                  \* AudioSliceState.status
    isRecording,             \* AudioSliceState.isRecording
    isPaused,                \* AudioSliceState.isPaused
    currentSession,          \* AudioSliceState.currentSession (None or Some(session))
    currentMetrics,          \* AudioSliceState.currentMetrics
    error,                   \* AudioSliceState.error
    initializeAudioInFlight, \* initializeAudio requests dispatched and not yet settled
    analyzeRecordingInFlight,\* analyzeRecording requests not yet settled, per sessionId argument
    lastAction,              \* the action the store dispatched last, and whether its reducer ran to its end
    scenario,                \* how many steps of the recording scenario the latest dispatches have matched
    devices,                 \* AudioSliceState.devices
    audioSettings,           \* AudioSliceState.audioSettings
    fetchAudioDevicesInFlight, \* fetchAudioDevices requests dispatched and not yet settled
    smoothingBuffer,         \* PitchSmoothingBuffer.buffer of the module-level instance
    pushed,                  \* the frequencies added to the buffer since it was last cleared
    lastTick,                \* the latest call of the pitch detector and what it returned
    peakCall,                \* a call of findPeak: its autocorrelation array and its result
    lastCall,                \* a call of a stateless utility: its argument and its result
    ownBuffer,               \* per stream, the buffer a detector of its own would hold
    recorderStateRef,        \* useAudioRecorder: recorderStateRef.current
    initializeAudioRequests  \* the initializeAudio requests by request id

vars == <<status, isRecording, isPaused, currentSession, currentMetrics, error,
          initializeAudioInFlight, analyzeRecordingInFlight, lastAction, scenario,
          devices, audioSettings, fetchAudioDevicesInFlight,
          smoothingBuffer, pushed, lastTick, peakCall, lastCall,
          ownBuffer, recorderStateRef, initializeAudioRequests>>

slice == <<status, isRecording, isPaused, currentSession, currentMetrics, error>>

\* the state of the pitch detection module
detector == <<smoothingBuffer, pushed, lastTick, peakCall, lastCall, ownBuffer>>

\* the state kept outside the store by the recorder hook and by the thunk requests
hooks == <<recorderStateRef, initializeAudioRequests>>

None == <<>>
Some(v) == <<v>>

\* ------------------------------------------------------------------ bounds
MaxTime == 1
MaxInFlight == 1

\* ------------------------------------------------------------------ inputs
AudioStates == {"idle", "initializing", "recording", "paused", "analyzing", "error"}
SessionIds == {"s1", "s2"}
Times == 1..MaxTime
Durations == {2500, 5000}
Blobs == {None, Some("blob1")}
MetricsValues == {"m1", "m2"}
ErrorStrings == {"Permission denied"}
RejectPayloads == {None, Some(""), Some("Permission denied")}

\* the value analyzeRecording resolves with for a request made with sessionId
mockAnalysis(sessionId) == "analysis_" \o sessionId
AnalysisPayloads == {None} \cup {Some(mockAnalysis(s)) : s \in SessionIds}

\* a || b of the source for a string-or-undefined a: the empty string is falsy too
\* mutant: no default message for a missing payload
OrDefaultMissing(payload, dflt) == IF payload = None THEN "" ELSE payload[1]
OrDefault(payload, dflt) == IF payload = None \/ payload = Some("") THEN dflt ELSE payload[1]

\* VALID_STATE_TRANSITIONS of utils/constants.ts
VALID_STATE_TRANSITIONS ==
    [s \in AudioStates |->
        CASE s = "idle" -> {"initializing", "recording"}
          [] s = "initializing" -> {"idle", "error"}
          [] s = "recording" -> {"paused", "analyzing"}
          [] s = "paused" -> {"recording", "analyzing"}
          [] s = "analyzing" -> {"idle", "error"}
          [] s = "error" -> {"idle"}]

\* ------------------------------------------------------------------ guards
canInitialize(s) == s = "idle" \/ s = "error"
\* mutant: a finished recording under analysis does not block a new one
canStartRecordingWhileAnalyzing(s) == s = "idle" \/ s = "analyzing"
canStartRecording(s) == s = "idle"
canPauseRecording(s) == s = "recording"
canResumeRecording(s) == s = "paused"
\* mutant: a paused recording cannot be stopped
canStopRecordingOnlyRecording(s) == s = "recording"
canStopRecording(s) == s = "recording" \/ s = "paused"
canAnalyze(s) == s = "recording" \/ s = "paused"

HasSession == currentSession # None
Session == currentSession[1]

\* ------------------------------------------------------------------ scenario
\* startRecording("s1"), pauseRecording, resumeRecording, stopRecording(5000, blob1),
\* analysis success: the position reached after dispatching (type, payload) now.
ScenarioStep(type, payload) ==
    IF scenario = 1 /\ type = "pauseRecording" THEN 2
    ELSE IF scenario = 2 /\ type = "resumeRecording" THEN 3
    ELSE IF scenario = 3 /\ type = "stopRecording"
            /\ payload = <<5000, Some("blob1")>> THEN 4
    ELSE IF scenario = 4 /\ type \in {"setAnalysis", "analyzeRecording/fulfilled"}
            /\ payload # None THEN 5
    ELSE IF type = "startRecording" /\ payload = "s1"
            /\ status = "idle" /\ ~HasSession THEN 1
    ELSE 0

Log(type, payload, accepted) ==
    /\ lastAction' = [type |-> type, payload |-> payload, accepted |-> accepted]
    /\ scenario' = ScenarioStep(type, payload)

\* ------------------------------------------------------------------ initial state
\* the audio settings are one record; only whether they are the defaults matters here
DEFAULT_AUDIO_SETTINGS == [sampleRate |-> 44100, echoCancellation |-> TRUE]

\* the users of the pitch detector that run in one execution context
Streams == {"a", "b"}

NoTick == [call |-> "none"]
NoPeakCall ==
    [autocorrelation |-> <<>>, done |-> FALSE, result |-> None,
     reported |-> FALSE, sensitivity |-> "none", emitted |-> None]

NoCall == [fn |-> "none", done |-> FALSE]

\* the initial recorderStateRef.current; the blob the chunks would make is kept by its size
NoRecorder == [mediaRecorder |-> "null", audioChunks |-> 0, startTime |-> 0, sessionId |-> None]

\* the ids of the initializeAudio requests, and the state before any was made:
\* none in flight, none that moved the status to initializing, none settled
RequestIds == {"r1", "r2", "r3"}
NoRequests == [inFlight |-> {}, owner |-> None, settled |-> None]

\* the state after the modules are loaded, but for the findPeak call observed
InitBase ==
    /\ status = "idle"
    /\ isRecording = FALSE
    /\ isPaused = FALSE
    /\ currentSession = None
    /\ currentMetrics = None
    /\ error = None
    /\ initializeAudioInFlight = 0
    /\ analyzeRecordingInFlight = [s \in SessionIds |-> 0]
    /\ lastAction = [type |-> "@@INIT", payload |-> None, accepted |-> TRUE]
    /\ scenario = 0
    /\ devices = [available |-> <<>>, selected |-> None]
    /\ audioSettings = DEFAULT_AUDIO_SETTINGS
    /\ fetchAudioDevicesInFlight = 0
    /\ smoothingBuffer = <<>>
    /\ pushed = <<>>
    /\ lastTick = NoTick
    /\ ownBuffer = [s \in Streams |-> <<>>]
    /\ recorderStateRef = NoRecorder
    /\ initializeAudioRequests = NoRequests

Init ==
    /\ InitBase
    /\ peakCall = NoPeakCall
    /\ lastCall = NoCall

\* ------------------------------------------------------------------ reducers
initialize ==
    /\ IF ~canInitialize(status)
       THEN /\ UNCHANGED slice
            /\ Log("initialize", None, FALSE)
       ELSE /\ status' = "initializing"
            /\ error' = None
            /\ UNCHANGED <<isRecording, isPaused, currentSession, currentMetrics>>
            /\ Log("initialize", None, TRUE)
    /\ UNCHANGED <<initializeAudioInFlight, analyzeRecordingInFlight>>
    /\ UNCHANGED <<devices, audioSettings, fetchAudioDevicesInFlight, detector, hooks>>

initializeSuccess ==
    /\ IF status # "initializing"
       THEN /\ UNCHANGED slice
            /\ Log("initializeSuccess", None, FALSE)
       ELSE /\ status' = "idle"
            /\ error' = None
            /\ UNCHANGED <<isRecording, isPaused, currentSession, currentMetrics>>
            /\ Log("initializeSuccess", None, TRUE)
    /\ UNCHANGED <<initializeAudioInFlight, analyzeRecordingInFlight>>
    /\ UNCHANGED <<devices, audioSettings, fetchAudioDevicesInFlight, detector, hooks>>

initializeError(payload) ==
    /\ IF status # "initializing"
       THEN /\ UNCHANGED slice
            /\ Log("initializeError", payload, FALSE)
       ELSE /\ status' = "error"
            /\ error' = Some(payload)
            /\ UNCHANGED <<isRecording, isPaused, currentSession, currentMetrics>>
            /\ Log("initializeError", payload, TRUE)
    /\ UNCHANGED <<initializeAudioInFlight, analyzeRecordingInFlight>>
    /\ UNCHANGED <<devices, audioSettings, fetchAudioDevicesInFlight, detector, hooks>>

\* mutant: startRecording enters recording without creating the session
startRecordingNoSession(sessionId, now) ==
    /\ IF ~canStartRecording(status)
       THEN /\ error' = Some("Cannot start recording: current state is " \o status)
            /\ UNCHANGED <<status, isRecording, isPaused, currentSession, currentMetrics>>
            /\ Log("startRecording", sessionId, FALSE)
       ELSE IF isRecording
       THEN /\ error' = Some("Already recording")
            /\ UNCHANGED <<status, isRecording, isPaused, currentSession, currentMetrics>>
            /\ Log("startRecording", sessionId, FALSE)
       ELSE /\ status' = "recording"
            /\ isRecording' = TRUE
            /\ isPaused' = FALSE
            /\ error' = None
            /\ UNCHANGED <<currentSession, currentMetrics>>
            /\ Log("startRecording", sessionId, TRUE)
    /\ UNCHANGED <<initializeAudioInFlight, analyzeRecordingInFlight>>
    /\ UNCHANGED <<devices, audioSettings, fetchAudioDevicesInFlight, detector, hooks>>

startRecording(sessionId, now) ==
    /\ IF ~canStartRecording(status)
       THEN /\ error' = Some("Cannot start recording: current state is " \o status)
            /\ UNCHANGED <<status, isRecording, isPaused, currentSession, currentMetrics>>
            /\ Log("startRecording", sessionId, FALSE)
       ELSE IF isRecording
       THEN /\ error' = Some("Already recording")
            /\ UNCHANGED <<status, isRecording, isPaused, currentSession, currentMetrics>>
            /\ Log("startRecording", sessionId, FALSE)
       ELSE /\ status' = "recording"
            /\ isRecording' = TRUE
            /\ isPaused' = FALSE
            /\ currentSession' = Some([id |-> sessionId, startTime |-> now, duration |-> 0,
                                       audioBlob |-> None, analysis |-> None])
            /\ error' = None
            /\ UNCHANGED currentMetrics
            /\ Log("startRecording", sessionId, TRUE)
    /\ UNCHANGED <<initializeAudioInFlight, analyzeRecordingInFlight>>
    /\ UNCHANGED <<devices, audioSettings, fetchAudioDevicesInFlight, detector, hooks>>

pauseRecording ==
    /\ IF ~canPauseRecording(status)
       THEN /\ error' = Some("Cannot pause: current state is " \o status)
            /\ UNCHANGED <<status, isRecording, isPaused, currentSession, currentMetrics>>
            /\ Log("pauseRecording", None, FALSE)
       ELSE IF ~isRecording
       THEN /\ error' = Some("Not currently recording")
            /\ UNCHANGED <<status, isRecording, isPaused, currentSession, currentMetrics>>
            /\ Log("pauseRecording", None, FALSE)
       ELSE IF isPaused
       THEN /\ error' = Some("Already paused")
            /\ UNCHANGED <<status, isRecording, isPaused, currentSession, currentMetrics>>
            /\ Log("pauseRecording", None, FALSE)
       ELSE /\ status' = "paused"
            /\ isPaused' = TRUE
            /\ UNCHANGED <<isRecording, currentSession, currentMetrics, error>>
            /\ Log("pauseRecording", None, TRUE)
    /\ UNCHANGED <<initializeAudioInFlight, analyzeRecordingInFlight>>
    /\ UNCHANGED <<devices, audioSettings, fetchAudioDevicesInFlight, detector, hooks>>

resumeRecording ==
    /\ IF ~canResumeRecording(status)
       THEN /\ error' = Some("Cannot resume: current state is " \o status)
            /\ UNCHANGED <<status, isRecording, isPaused, currentSession, currentMetrics>>
            /\ Log("resumeRecording", None, FALSE)
       ELSE IF ~isPaused
       THEN /\ error' = Some("Not currently paused")
            /\ UNCHANGED <<status, isRecording, isPaused, currentSession, currentMetrics>>
            /\ Log("resumeRecording", None, FALSE)
       ELSE /\ status' = "recording"
            /\ isPaused' = FALSE
            /\ UNCHANGED <<isRecording, currentSession, currentMetrics, error>>
            /\ Log("resumeRecording", None, TRUE)
    /\ UNCHANGED <<initializeAudioInFlight, analyzeRecordingInFlight>>
    /\ UNCHANGED <<devices, audioSettings, fetchAudioDevicesInFlight, detector, hooks>>

\* mutant: stopRecording stamps the duration but drops the captured audio
stopRecordingDropsBlob(duration, audioBlob) ==
    /\ IF ~canStopRecording(status) \/ ~isRecording
       THEN /\ error' = Some("Cannot stop recording: current state is " \o status)
            /\ UNCHANGED <<status, isRecording, isPaused, currentSession, currentMetrics>>
            /\ Log("stopRecording", <<duration, audioBlob>>, FALSE)
       ELSE /\ status' = "analyzing"
            /\ isRecording' = FALSE
            /\ isPaused' = FALSE
            /\ currentSession' = IF HasSession
                                 THEN Some([Session EXCEPT !.duration = duration])
                                 ELSE currentSession
            /\ UNCHANGED <<currentMetrics, error>>
            /\ Log("stopRecording", <<duration, audioBlob>>, TRUE)
    /\ UNCHANGED <<initializeAudioInFlight, analyzeRecordingInFlight>>
    /\ UNCHANGED <<devices, audioSettings, fetchAudioDevicesInFlight, detector, hooks>>

stopRecording(duration, audioBlob) ==
    /\ IF ~canStopRecording(status)
       THEN /\ error' = Some("Cannot stop recording: current state is " \o status)
            /\ UNCHANGED <<status, isRecording, isPaused, currentSession, currentMetrics>>
            /\ Log("stopRecording", <<duration, audioBlob>>, FALSE)
       ELSE IF ~isRecording
       THEN /\ error' = Some("Not currently recording")
            /\ UNCHANGED <<status, isRecording, isPaused, currentSession, currentMetrics>>
            /\ Log("stopRecording", <<duration, audioBlob>>, FALSE)
       ELSE /\ status' = "analyzing"
            /\ isRecording' = FALSE
            /\ isPaused' = FALSE
            /\ currentSession' = IF HasSession
                                 THEN Some([Session EXCEPT !.duration = duration,
                                                           !.audioBlob = audioBlob])
                                 ELSE currentSession
            /\ UNCHANGED <<currentMetrics, error>>
            /\ Log("stopRecording", <<duration, audioBlob>>, TRUE)
    /\ UNCHANGED <<initializeAudioInFlight, analyzeRecordingInFlight>>
    /\ UNCHANGED <<devices, audioSettings, fetchAudioDevicesInFlight, detector, hooks>>

\* mutant: updateMetrics stores the metrics in every status
updateMetricsAnyStatus(payload) ==
    /\ currentMetrics' = Some(payload)
    /\ UNCHANGED <<status, isRecording, isPaused, currentSession, error>>
    /\ Log("updateMetrics", payload, TRUE)
    /\ UNCHANGED <<initializeAudioInFlight, analyzeRecordingInFlight>>
    /\ UNCHANGED <<devices, audioSettings, fetchAudioDevicesInFlight, detector, hooks>>

updateMetrics(payload) ==
    /\ IF status # "recording" /\ status # "paused"
       THEN /\ UNCHANGED slice
            /\ Log("updateMetrics", payload, FALSE)
       ELSE /\ currentMetrics' = Some(payload)
            /\ UNCHANGED <<status, isRecording, isPaused, currentSession, error>>
            /\ Log("updateMetrics", payload, TRUE)
    /\ UNCHANGED <<initializeAudioInFlight, analyzeRecordingInFlight>>
    /\ UNCHANGED <<devices, audioSettings, fetchAudioDevicesInFlight, detector, hooks>>

\* mutant: updateSessionDuration checks only that a session exists
updateSessionDurationAnyStatus(payload) ==
    /\ IF ~HasSession
       THEN /\ UNCHANGED slice
            /\ Log("updateSessionDuration", payload, FALSE)
       ELSE /\ currentSession' = Some([Session EXCEPT !.duration = payload])
            /\ UNCHANGED <<status, isRecording, isPaused, currentMetrics, error>>
            /\ Log("updateSessionDuration", payload, TRUE)
    /\ UNCHANGED <<initializeAudioInFlight, analyzeRecordingInFlight>>
    /\ UNCHANGED <<devices, audioSettings, fetchAudioDevicesInFlight, detector, hooks>>

updateSessionDuration(payload) ==
    /\ IF ~HasSession
       THEN /\ UNCHANGED slice
            /\ Log("updateSessionDuration", payload, FALSE)
       ELSE IF status # "recording" /\ status # "paused"
       THEN /\ UNCHANGED slice
            /\ Log("updateSessionDuration", payload, FALSE)
       ELSE /\ currentSession' = Some([Session EXCEPT !.duration = payload])
            /\ UNCHANGED <<status, isRecording, isPaused, currentMetrics, error>>
            /\ Log("updateSessionDuration", payload, TRUE)
    /\ UNCHANGED <<initializeAudioInFlight, analyzeRecordingInFlight>>
    /\ UNCHANGED <<devices, audioSettings, fetchAudioDevicesInFlight, detector, hooks>>

\* mutant: setAnalysis stores the result whenever a session exists
setAnalysisAnyStatus(payload) ==
    /\ IF ~HasSession
       THEN /\ UNCHANGED slice
            /\ Log("setAnalysis", payload, FALSE)
       ELSE /\ currentSession' = Some([Session EXCEPT !.analysis = payload])
            /\ status' = "idle"
            /\ UNCHANGED <<isRecording, isPaused, currentMetrics, error>>
            /\ Log("setAnalysis", payload, status = "analyzing")
    /\ UNCHANGED <<initializeAudioInFlight, analyzeRecordingInFlight>>
    /\ UNCHANGED <<devices, audioSettings, fetchAudioDevicesInFlight, detector, hooks>>

setAnalysis(payload) ==
    /\ IF status # "analyzing"
       THEN /\ UNCHANGED slice
            /\ Log("setAnalysis", payload, FALSE)
       ELSE IF ~HasSession
       THEN /\ status' = "idle"
            /\ UNCHANGED <<isRecording, isPaused, currentSession, currentMetrics, error>>
            /\ Log("setAnalysis", payload, FALSE)
       ELSE /\ currentSession' = Some([Session EXCEPT !.analysis = payload])
            /\ status' = "idle"
            /\ UNCHANGED <<isRecording, isPaused, currentMetrics, error>>
            /\ Log("setAnalysis", payload, TRUE)
    /\ UNCHANGED <<initializeAudioInFlight, analyzeRecordingInFlight>>
    /\ UNCHANGED <<devices, audioSettings, fetchAudioDevicesInFlight, detector, hooks>>

\* mutant: a rejected startAnalysis fails open into the error state
startAnalysisEscalates ==
    /\ IF ~canAnalyze(status) \/ ~HasSession
       THEN /\ error' = Some("Cannot analyze: current state is " \o status)
            /\ status' = "error"
            /\ UNCHANGED <<isRecording, isPaused, currentSession, currentMetrics>>
            /\ Log("startAnalysis", None, FALSE)
       ELSE /\ status' = "analyzing"
            /\ isRecording' = FALSE
            /\ isPaused' = FALSE
            /\ UNCHANGED <<currentSession, currentMetrics, error>>
            /\ Log("startAnalysis", None, TRUE)
    /\ UNCHANGED <<initializeAudioInFlight, analyzeRecordingInFlight>>
    /\ UNCHANGED <<devices, audioSettings, fetchAudioDevicesInFlight, detector, hooks>>

startAnalysis ==
    /\ IF ~canAnalyze(status)
       THEN /\ error' = Some("Cannot analyze: current state is " \o status)
            /\ UNCHANGED <<status, isRecording, isPaused, currentSession, currentMetrics>>
            /\ Log("startAnalysis", None, FALSE)
       ELSE IF ~HasSession
       THEN /\ error' = Some("No active recording session")
            /\ UNCHANGED <<status, isRecording, isPaused, currentSession, currentMetrics>>
            /\ Log("startAnalysis", None, FALSE)
       ELSE /\ status' = "analyzing"
            /\ isRecording' = FALSE
            /\ isPaused' = FALSE
            /\ UNCHANGED <<currentSession, currentMetrics, error>>
            /\ Log("startAnalysis", None, TRUE)
    /\ UNCHANGED <<initializeAudioInFlight, analyzeRecordingInFlight>>
    /\ UNCHANGED <<devices, audioSettings, fetchAudioDevicesInFlight, detector, hooks>>

\* mutant: setError leaves the recording flags as they are
setErrorKeepsFlags(payload) ==
    /\ status' = "error"
    /\ error' = Some(payload)
    /\ UNCHANGED <<isRecording, isPaused>>
    /\ UNCHANGED <<currentSession, currentMetrics>>
    /\ Log("setError", payload, TRUE)
    /\ UNCHANGED <<initializeAudioInFlight, analyzeRecordingInFlight>>
    /\ UNCHANGED <<devices, audioSettings, fetchAudioDevicesInFlight, detector, hooks>>

setError(payload) ==
    /\ status' = "error"
    /\ error' = Some(payload)
    /\ isRecording' = FALSE
    /\ isPaused' = FALSE
    /\ UNCHANGED <<currentSession, currentMetrics>>
    /\ Log("setError", payload, TRUE)
    /\ UNCHANGED <<initializeAudioInFlight, analyzeRecordingInFlight>>
    /\ UNCHANGED <<devices, audioSettings, fetchAudioDevicesInFlight, detector, hooks>>

\* mutant: clearError clears the message but leaves the error status
clearErrorKeepsStatus ==
    /\ error' = None
    /\ UNCHANGED <<status, isRecording, isPaused, currentSession, currentMetrics>>
    /\ Log("clearError", None, TRUE)
    /\ UNCHANGED <<initializeAudioInFlight, analyzeRecordingInFlight>>
    /\ UNCHANGED <<devices, audioSettings, fetchAudioDevicesInFlight, detector, hooks>>

clearError ==
    /\ error' = None
    /\ status' = IF status = "error" THEN "idle" ELSE status
    /\ UNCHANGED <<isRecording, isPaused, currentSession, currentMetrics>>
    /\ Log("clearError", None, TRUE)
    /\ UNCHANGED <<initializeAudioInFlight, analyzeRecordingInFlight>>
    /\ UNCHANGED <<devices, audioSettings, fetchAudioDevicesInFlight, detector, hooks>>

\* mutant: reset keeps the metrics of the discarded session
resetKeepsMetrics ==
    /\ status' = "idle"
    /\ isRecording' = FALSE
    /\ isPaused' = FALSE
    /\ currentSession' = None
    /\ error' = None
    /\ UNCHANGED currentMetrics
    /\ Log("reset", None, TRUE)
    /\ UNCHANGED <<initializeAudioInFlight, analyzeRecordingInFlight>>
    /\ UNCHANGED <<devices, audioSettings, fetchAudioDevicesInFlight, detector, hooks>>

reset ==
    /\ status' = "idle"
    /\ isRecording' = FALSE
    /\ isPaused' = FALSE
    /\ currentSession' = None
    /\ currentMetrics' = None
    /\ error' = None
    /\ Log("reset", None, TRUE)
    /\ UNCHANGED <<initializeAudioInFlight, analyzeRecordingInFlight>>
    /\ UNCHANGED <<devices, audioSettings, fetchAudioDevicesInFlight, detector, hooks>>

\* mutant: resetSession discards the session but leaves the status alone
resetSessionKeepsStatus ==
    /\ currentSession' = None
    /\ currentMetrics' = None
    /\ isRecording' = FALSE
    /\ isPaused' = FALSE
    /\ UNCHANGED <<status, error>>
    /\ Log("resetSession", None, TRUE)
    /\ UNCHANGED <<initializeAudioInFlight, analyzeRecordingInFlight>>
    /\ UNCHANGED <<devices, audioSettings, fetchAudioDevicesInFlight, detector, hooks>>

resetSession ==
    /\ currentSession' = None
    /\ currentMetrics' = None
    /\ isRecording' = FALSE
    /\ isPaused' = FALSE
    /\ status' = "idle"
    /\ UNCHANGED error
    /\ Log("resetSession", None, TRUE)
    /\ UNCHANGED <<initializeAudioInFlight, analyzeRecordingInFlight>>
    /\ UNCHANGED <<devices, audioSettings, fetchAudioDevicesInFlight, detector, hooks>>

\* ------------------------------------------------------------------ thunk lifecycle events
\* the thunk requests, of either kind, that have not settled yet
InFlightTotal ==
    initializeAudioInFlight + analyzeRecordingInFlight["s1"] + analyzeRecordingInFlight["s2"]
        + fetchAudioDevicesInFlight

\* dispatch(initializeAudio()): the pending action is dispatched at once, the
\* request then settles later with fulfilled or rejected.
initializeAudioPending ==
    /\ InFlightTotal < MaxInFlight
    /\ initializeAudioInFlight' = initializeAudioInFlight + 1
    /\ IF ~canInitialize(status)
       THEN /\ UNCHANGED slice
            /\ Log("initializeAudio/pending", None, FALSE)
       ELSE /\ status' = "initializing"
            /\ error' = None
            /\ UNCHANGED <<isRecording, isPaused, currentSession, currentMetrics>>
            /\ Log("initializeAudio/pending", None, TRUE)
    /\ UNCHANGED analyzeRecordingInFlight
    /\ UNCHANGED <<devices, audioSettings, fetchAudioDevicesInFlight, detector, hooks>>

initializeAudioFulfilled ==
    /\ initializeAudioInFlight > 0
    /\ initializeAudioInFlight' = initializeAudioInFlight - 1
    /\ IF status # "initializing"
       THEN /\ UNCHANGED slice
            /\ Log("initializeAudio/fulfilled", None, FALSE)
       ELSE /\ status' = "idle"
            /\ error' = None
            /\ UNCHANGED <<isRecording, isPaused, currentSession, currentMetrics>>
            /\ Log("initializeAudio/fulfilled", None, TRUE)
    /\ UNCHANGED analyzeRecordingInFlight
    /\ UNCHANGED <<devices, audioSettings, fetchAudioDevicesInFlight, detector, hooks>>

initializeAudioRejected(payload) ==
    /\ initializeAudioInFlight > 0
    /\ initializeAudioInFlight' = initializeAudioInFlight - 1
    /\ IF status # "initializing"
       THEN /\ UNCHANGED slice
            /\ Log("initializeAudio/rejected", payload, FALSE)
       ELSE /\ status' = "error"
            /\ error' = Some(OrDefault(payload, "Failed to initialize audio"))
            /\ UNCHANGED <<isRecording, isPaused, currentSession, currentMetrics>>
            /\ Log("initializeAudio/rejected", payload, TRUE)
    /\ UNCHANGED analyzeRecordingInFlight
    /\ UNCHANGED <<devices, audioSettings, fetchAudioDevicesInFlight, detector, hooks>>

\* dispatch(analyzeRecording({sessionId, audioBlob}))
analyzeRecordingPending(sessionId) ==
    /\ InFlightTotal < MaxInFlight
    /\ analyzeRecordingInFlight' =
          [analyzeRecordingInFlight EXCEPT ![sessionId] = @ + 1]
    /\ UNCHANGED slice
    /\ Log("analyzeRecording/pending", sessionId, status = "analyzing")
    /\ UNCHANGED initializeAudioInFlight
    /\ UNCHANGED <<devices, audioSettings, fetchAudioDevicesInFlight, detector, hooks>>

analyzeRecordingFulfilled(sessionId) ==
    /\ analyzeRecordingInFlight[sessionId] > 0
    /\ analyzeRecordingInFlight' =
          [analyzeRecordingInFlight EXCEPT ![sessionId] = @ - 1]
    /\ IF status # "analyzing"
       THEN /\ UNCHANGED slice
            /\ Log("analyzeRecording/fulfilled", Some(mockAnalysis(sessionId)), FALSE)
       ELSE IF ~HasSession
       THEN /\ status' = "idle"
            /\ UNCHANGED <<isRecording, isPaused, currentSession, currentMetrics, error>>
            /\ Log("analyzeRecording/fulfilled", Some(mockAnalysis(sessionId)), FALSE)
       ELSE /\ currentSession' = Some([Session EXCEPT !.analysis = Some(mockAnalysis(sessionId))])
            /\ status' = "idle"
            /\ UNCHANGED <<isRecording, isPaused, currentMetrics, error>>
            /\ Log("analyzeRecording/fulfilled", Some(mockAnalysis(sessionId)), TRUE)
    /\ UNCHANGED initializeAudioInFlight
    /\ UNCHANGED <<devices, audioSettings, fetchAudioDevicesInFlight, detector, hooks>>

analyzeRecordingRejected(sessionId, payload) ==
    /\ analyzeRecordingInFlight[sessionId] > 0
    /\ analyzeRecordingInFlight' =
          [analyzeRecordingInFlight EXCEPT ![sessionId] = @ - 1]
    /\ IF status # "analyzing"
       THEN /\ UNCHANGED slice
            /\ Log("analyzeRecording/rejected", payload, FALSE)
       ELSE /\ status' = "error"
            /\ error' = Some(OrDefault(payload, "Failed to analyze recording"))
            /\ UNCHANGED <<isRecording, isPaused, currentSession, currentMetrics>>
            /\ Log("analyzeRecording/rejected", payload, TRUE)
    /\ UNCHANGED initializeAudioInFlight
    /\ UNCHANGED <<devices, audioSettings, fetchAudioDevicesInFlight, detector, hooks>>

Next ==
    \/ initialize
    \/ initializeSuccess
    \/ \E m \in ErrorStrings : initializeError(m)
    \/ \E s \in SessionIds, t \in Times : startRecording(s, t)
    \/ pauseRecording
    \/ resumeRecording
    \/ \E d \in Durations, b \in Blobs : stopRecording(d, b)
    \/ \E m \in MetricsValues : updateMetrics(m)
    \/ \E d \in Durations : updateSessionDuration(d)
    \/ \E a \in AnalysisPayloads : setAnalysis(a)
    \/ startAnalysis
    \/ \E m \in ErrorStrings : setError(m)
    \/ clearError
    \/ reset
    \/ resetSession
    \/ initializeAudioPending
    \/ initializeAudioFulfilled
    \/ \E p \in RejectPayloads : initializeAudioRejected(p)
    \/ \E s \in SessionIds : analyzeRecordingPending(s)
    \/ \E s \in SessionIds : analyzeRecordingFulfilled(s)
    \/ \E s \in SessionIds, p \in RejectPayloads : analyzeRecordingRejected(s, p)

Spec == Init /\ [][Next]_vars

\* ------------------------------------------------------------------ devices and settings
\* the slice with its device and settings reducers and the fetchAudioDevices thunk
DeviceIds == {"mic1"}
DeviceLists == {<<>>, <<"mic1">>}
PartialSettings == {[echoCancellation |-> FALSE]}

sliceFrame ==
    <<slice, initializeAudioInFlight, analyzeRecordingInFlight, detector, hooks>>

\* state.devices after the devices list `payload` has been stored
withDevices(payload) ==
    [available |-> payload,
     selected |-> IF Len(payload) > 0 /\ devices.selected = None
                  THEN Some(payload[1])
                  ELSE devices.selected]

setDevices(payload) ==
    /\ devices' = withDevices(payload)
    /\ Log("setDevices", payload, TRUE)
    /\ UNCHANGED <<sliceFrame, audioSettings, fetchAudioDevicesInFlight>>

selectDevice(payload) ==
    /\ devices' = [devices EXCEPT !.selected = Some(payload)]
    /\ Log("selectDevice", payload, TRUE)
    /\ UNCHANGED <<sliceFrame, audioSettings, fetchAudioDevicesInFlight>>

updateSettings(payload) ==
    /\ audioSettings' = payload @@ audioSettings
    /\ Log("updateSettings", payload, TRUE)
    /\ UNCHANGED <<sliceFrame, devices, fetchAudioDevicesInFlight>>

resetSettings ==
    /\ audioSettings' = DEFAULT_AUDIO_SETTINGS
    /\ Log("resetSettings", None, TRUE)
    /\ UNCHANGED <<sliceFrame, devices, fetchAudioDevicesInFlight>>

\* dispatch(fetchAudioDevices()): the pending reducer only warns in error
\* status, the request runs either way
fetchAudioDevicesPending ==
    /\ InFlightTotal < MaxInFlight
    /\ fetchAudioDevicesInFlight' = fetchAudioDevicesInFlight + 1
    /\ Log("fetchAudioDevices/pending", None, status # "error")
    /\ UNCHANGED <<sliceFrame, devices, audioSettings>>

fetchAudioDevicesFulfilled(payload) ==
    /\ fetchAudioDevicesInFlight > 0
    /\ fetchAudioDevicesInFlight' = fetchAudioDevicesInFlight - 1
    /\ devices' = withDevices(payload)
    /\ Log("fetchAudioDevices/fulfilled", payload, TRUE)
    /\ UNCHANGED <<sliceFrame, audioSettings>>

fetchAudioDevicesRejected(payload) ==
    /\ fetchAudioDevicesInFlight > 0
    /\ fetchAudioDevicesInFlight' = fetchAudioDevicesInFlight - 1
    /\ Log("fetchAudioDevices/rejected", payload, TRUE)
    /\ UNCHANGED <<sliceFrame, devices, audioSettings>>

\* the reducers of the slice, the device and settings reducers among them, and
\* the fetchAudioDevices thunk
DevicesNext ==
    \/ initialize
    \/ initializeSuccess
    \/ \E m \in ErrorStrings : initializeError(m)
    \/ \E s \in SessionIds, t \in Times : startRecording(s, t)
    \/ pauseRecording
    \/ resumeRecording
    \/ \E d \in Durations, b \in Blobs : stopRecording(d, b)
    \/ \E m \in MetricsValues : updateMetrics(m)
    \/ \E d \in Durations : updateSessionDuration(d)
    \/ \E a \in AnalysisPayloads : setAnalysis(a)
    \/ startAnalysis
    \/ \E m \in ErrorStrings : setError(m)
    \/ clearError
    \/ reset
    \/ resetSession
    \/ \E l \in DeviceLists : setDevices(l)
    \/ \E d \in DeviceIds : selectDevice(d)
    \/ \E p \in PartialSettings : updateSettings(p)
    \/ resetSettings
    \/ fetchAudioDevicesPending
    \/ \E l \in DeviceLists : fetchAudioDevicesFulfilled(l)
    \/ \E p \in RejectPayloads : fetchAudioDevicesRejected(p)

DevicesSpec == Init /\ [][DevicesNext]_vars

\* ------------------------------------------------------------------ pitch detection
\* A Float32Array is a function on 0..n-1. Samples are integers in units of
\* 1/AmplitudeUnit, normalised samples in units of 1/NormUnit, confidences in
\* units of 1/ConfidenceUnit and frequencies in units of 1/FrequencyUnit Hz.
AmplitudeUnit == 100
NormUnit == 10
ConfidenceUnit == 100
FrequencyUnit == 1000

\* './constants' of the pitch detection module, on a scale that keeps the lags small
MIN_FREQUENCY == 2
MAX_FREQUENCY == 8
MIN_CONFIDENCE_THRESHOLD == 30
SampleRates == {16}

\* the capacity of the smoothing buffer and the number of samples of a window
maxSize == 2
WindowLen == 16

Length(array) == Cardinality(DOMAIN array)

Abs(x) == IF x < 0 THEN -x ELSE x

Min(a, b) == IF a < b THEN a ELSE b

\* values[0] + ... + values[n-1], accumulated in index order
SumOver(values) ==
    LET acc[k \in 0..Length(values)] ==
            IF k = 0 THEN 0 ELSE acc[k - 1] + values[k - 1]
    IN  acc[Length(values)]

\* the window that repeats `pattern` (a sequence) over WindowLen samples
Periodic(pattern) ==
    [i \in 0..(WindowLen - 1) |-> pattern[(i % Len(pattern)) + 1]]

Patterns ==
    { <<0>>, <<1, 0>>, <<50>>,
      <<100, 0>>, <<100, 50>>,
      <<100, 0, 0>>,
      <<100, 0, -100, 0>>,
      <<100, 0, 0, 0, 0, 0>>,
      <<100, 0, 0, 0, 50, 0, 0, 0, 0, 0, 0, 0, 0, 0, 0, 0, 0>>,
      <<100, 0, 0, 0, 20, 0, 0, 0, 0, 0, 0, 0, 0, 0, 0, 0, 0>> }

Windows == {Periodic(p) : p \in Patterns}

Sensitivities == {"low", "medium", "high"}

\* mutant: a full buffer drops the value that arrives instead of the oldest
addDropsNewest(buffer, frequency) ==
    LET grown == Append(buffer, frequency)
    IN  IF Len(grown) > maxSize THEN SubSeq(grown, 1, maxSize) ELSE grown

\* PitchSmoothingBuffer.add
add(buffer, frequency) ==
    LET grown == Append(buffer, frequency)
    IN  IF Len(grown) > maxSize THEN Tail(grown) ELSE grown

\* PitchSmoothingBuffer.getSmoothed
getSmoothed(buffer) ==
    IF Len(buffer) = 0
    THEN 0
    ELSE SumOver([k \in 0..(Len(buffer) - 1) |-> buffer[k + 1]]) \div Len(buffer)

\* mutant: only an all-zero window passes for silence
isSilentOnlyZero(buffer) ==
    LET sumSquares == SumOver([i \in DOMAIN buffer |-> buffer[i] * buffer[i]])
    IN  sumSquares = 0

\* rms < 0.01, with rms = sqrt(sumSquares / length), squared on both sides
isSilent(buffer) ==
    LET sumSquares == SumOver([i \in DOMAIN buffer |-> buffer[i] * buffer[i]])
    IN  sumSquares * 10000 < AmplitudeUnit * AmplitudeUnit * Length(buffer)

normalizeBuffer(buffer) ==
    LET max == CHOOSE m \in {Abs(buffer[i]) : i \in DOMAIN buffer} :
                   \A i \in DOMAIN buffer : Abs(buffer[i]) <= m
    IN  IF max > 0
        THEN [i \in DOMAIN buffer |-> (buffer[i] * NormUnit) \div max]
        ELSE [i \in DOMAIN buffer |-> 0]

autocorrelate(buffer, sampleRate) ==
    LET size == Length(buffer)
        maxSamples == sampleRate \div MIN_FREQUENCY
    IN  [lag \in 0..(maxSamples - 1) |->
            SumOver([i \in 0..(size - lag - 1) |-> buffer[i] * buffer[i + lag]])]

\* the first lag in minSamples..maxSamples-1 with a negative correlation
zeroCrossingOf(autocorrelation, minSamples, maxSamples) ==
    LET scan[i \in minSamples..maxSamples] ==
            IF i >= maxSamples THEN minSamples
            ELSE IF autocorrelation[i] < 0 THEN i
            ELSE scan[i + 1]
    IN  scan[minSamples]

\* mutant: one iteration of the peak loop that keeps the latest of equal peaks
keepPeakLatest(peak, autocorrelation, i) ==
    IF /\ autocorrelation[i] > autocorrelation[i - 1]
       /\ autocorrelation[i] > autocorrelation[i + 1]
       /\ (peak.index = -1 \/ autocorrelation[i] >= peak.value)
    THEN [index |-> i, value |-> autocorrelation[i]]
    ELSE peak

\* one iteration of the peak loop; peakValue is -Infinity while peakIndex is -1
keepPeak(peak, autocorrelation, i) ==
    IF /\ autocorrelation[i] > autocorrelation[i - 1]
       /\ autocorrelation[i] > autocorrelation[i + 1]
       /\ (peak.index = -1 \/ autocorrelation[i] > peak.value)
    THEN [index |-> i, value |-> autocorrelation[i]]
    ELSE peak

findPeak(autocorrelation, sampleRate) ==
    LET minSamples == sampleRate \div MAX_FREQUENCY
        maxSamples == sampleRate \div MIN_FREQUENCY
        zeroCrossing == zeroCrossingOf(autocorrelation, minSamples, maxSamples)
        loop[i \in (zeroCrossing - 1)..(maxSamples - 2)] ==
            IF i < zeroCrossing
            THEN [index |-> -1, value |-> 0]
            ELSE keepPeak(loop[i - 1], autocorrelation, i)
        peak == IF zeroCrossing > maxSamples - 2
                THEN [index |-> -1, value |-> 0]
                ELSE loop[maxSamples - 2]
        maxAutocorrelation == autocorrelation[0]
    IN  IF peak.index = -1
        THEN None
        ELSE Some([index |-> peak.index,
                   confidence |-> IF maxAutocorrelation > 0
                                  THEN (peak.value * ConfidenceUnit) \div maxAutocorrelation
                                  ELSE 0])

\* sampleRate / parabolicInterpolation(autocorrelation, peakIndex), in frequency units
frequencyAt(autocorrelation, peakIndex, sampleRate) ==
    IF peakIndex <= 0 \/ peakIndex >= Length(autocorrelation) - 1
    THEN (sampleRate * FrequencyUnit) \div peakIndex
    ELSE LET y0 == autocorrelation[peakIndex - 1]
             y1 == autocorrelation[peakIndex]
             y2 == autocorrelation[peakIndex + 1]
             \* delta = 0.5 * (y0 - y2) / (y0 - 2*y1 + y2) = (y2 - y0) / curve
             curve == 2 * (2 * y1 - y0 - y2)
         IN  (sampleRate * FrequencyUnit * curve) \div (peakIndex * curve + (y2 - y0))

\* the part of detectPitch that reads the window only: the silence gate, the
\* peak and the frequency at the interpolated peak
analyse(buffer, sampleRate) ==
    LET autocorrelation == autocorrelate(normalizeBuffer(buffer), sampleRate)
        peak == findPeak(autocorrelation, sampleRate)
    IN  IF isSilent(buffer)
        THEN [silent |-> TRUE, peak |-> None, frequency |-> 0]
        ELSE IF peak = None
        THEN [silent |-> FALSE, peak |-> None, frequency |-> 0]
        ELSE [silent |-> FALSE, peak |-> peak,
              frequency |-> frequencyAt(autocorrelation, peak[1].index, sampleRate)]

\* analyse, tabulated over the windows and sample rates of the model
Analysed == [buffer \in Windows |-> [sampleRate \in SampleRates |-> analyse(buffer, sampleRate)]]

\* mutant: the confidence is reported as the raw ratio
reportedConfidenceUncapped(confidence) == confidence

\* Math.min(peak.confidence, 1.0)
reportedConfidence(confidence) == Min(confidence, ConfidenceUnit)

\* detectPitch from the silence gate on, as a function of the buffer contents
\* `held` it finds and of what it `found` in the window: what it returns, the
\* buffer contents it leaves and the frequency it detected
pitchFrom(held, found, enableSmoothing) ==
    LET cleared == IF enableSmoothing THEN <<>> ELSE held
        raw == found.frequency
        added == IF enableSmoothing THEN add(held, raw) ELSE held
        frequency == IF enableSmoothing THEN getSmoothed(added) ELSE raw
    IN  IF found.silent
        THEN [result |-> None, buffer |-> cleared, raw |-> None]
        ELSE IF found.peak = None
        THEN [result |-> None, buffer |-> cleared, raw |-> None]
        ELSE IF found.peak[1].confidence < MIN_CONFIDENCE_THRESHOLD
        THEN [result |-> None, buffer |-> cleared, raw |-> None]
        ELSE IF frequency < MIN_FREQUENCY * FrequencyUnit
                \/ frequency > MAX_FREQUENCY * FrequencyUnit
        THEN [result |-> None, buffer |-> cleared, raw |-> Some(raw)]
        ELSE [result |-> Some([frequency |-> frequency,
                               confidence |-> reportedConfidence(found.peak[1].confidence)]),
              buffer |-> added, raw |-> Some(raw)]

\* detectPitch on a window of the table
detectPitchOn(held, buffer, sampleRate, enableSmoothing) ==
    pitchFrom(held, Analysed[buffer][sampleRate], enableSmoothing)

thresholds == [low |-> 85, medium |-> 70, high |-> 50]

\* the frequencies added since the last clear, the latest maxSize + 1 of them
remember(history, out, enableSmoothing) ==
    IF ~enableSmoothing THEN history
    ELSE IF out.buffer = <<>> THEN <<>>
    ELSE LET grown == Append(history, out.raw[1])
         IN  IF Len(grown) > maxSize + 1 THEN Tail(grown) ELSE grown

detectPitch(buffer, sampleRate, enableSmoothing) ==
    LET out == detectPitchOn(smoothingBuffer, buffer, sampleRate, enableSmoothing)
    IN  /\ smoothingBuffer' = out.buffer
        /\ pushed' = remember(pushed, out, enableSmoothing)
        /\ lastTick' = [call |-> "detectPitch", buffer |-> buffer,
                        enableSmoothing |-> enableSmoothing, sensitivity |-> "none",
                        before |-> smoothingBuffer, raw |-> out.raw,
                        result |-> out.result]
        /\ UNCHANGED <<slice, initializeAudioInFlight, analyzeRecordingInFlight,
                       lastAction, scenario, devices, audioSettings,
                       fetchAudioDevicesInFlight, hooks,
                   peakCall, lastCall, ownBuffer>>

\* detectPitchWithSensitivity, and the same filter in calculateMetrics and in
\* the audio processor worker
detectPitchWithSensitivity(buffer, sampleRate, sensitivity) ==
    LET out == detectPitchOn(smoothingBuffer, buffer, sampleRate, TRUE)
        threshold == thresholds[sensitivity]
        result == IF out.result = None THEN None
                  ELSE IF out.result[1].confidence < threshold THEN None
                  ELSE out.result
    IN  /\ smoothingBuffer' = out.buffer
        /\ pushed' = remember(pushed, out, TRUE)
        /\ lastTick' = [call |-> "detectPitchWithSensitivity", buffer |-> buffer,
                        enableSmoothing |-> TRUE, sensitivity |-> sensitivity,
                        before |-> smoothingBuffer, raw |-> out.raw,
                        result |-> result]
        /\ UNCHANGED <<slice, initializeAudioInFlight, analyzeRecordingInFlight,
                       lastAction, scenario, devices, audioSettings,
                       fetchAudioDevicesInFlight, hooks,
                   peakCall, lastCall, ownBuffer>>

clearPitchSmoothing ==
    /\ smoothingBuffer' = <<>>
    /\ pushed' = <<>>
    /\ lastTick' = [call |-> "clearPitchSmoothing"]
    /\ UNCHANGED <<slice, initializeAudioInFlight, analyzeRecordingInFlight,
                   lastAction, scenario, devices, audioSettings,
                   fetchAudioDevicesInFlight, hooks,
                   peakCall, lastCall, ownBuffer>>

PitchNext ==
    \/ \E w \in Windows, sr \in SampleRates, e \in BOOLEAN : detectPitch(w, sr, e)
    \/ \E w \in Windows, sr \in SampleRates, s \in Sensitivities :
          detectPitchWithSensitivity(w, sr, s)
    \/ clearPitchSmoothing

PitchSpec == Init /\ [][PitchNext]_vars

\* ------------------------------------------------------------------ two users of the detector
\* One tick of calculateMetrics, or of the worker's analysis, for one stream:
\* detectPitch(timeDomainData, sampleRate, true) on the module-level buffer.
\* ownBuffer follows what a buffer fed by this stream alone would hold.
streamTick(stream, buffer, sampleRate) ==
    LET out == detectPitchOn(smoothingBuffer, buffer, sampleRate, TRUE)
        alone == detectPitchOn(ownBuffer[stream], buffer, sampleRate, TRUE)
    IN  /\ smoothingBuffer' = out.buffer
        /\ pushed' = remember(pushed, out, TRUE)
        /\ ownBuffer' = [ownBuffer EXCEPT ![stream] = alone.buffer]
        /\ lastTick' = [call |-> "detectPitch", stream |-> stream, buffer |-> buffer,
                        enableSmoothing |-> TRUE, sensitivity |-> "none",
                        before |-> smoothingBuffer, raw |-> out.raw,
                        result |-> out.result, alone |-> alone.result]
        /\ UNCHANGED <<slice, initializeAudioInFlight, analyzeRecordingInFlight,
                       lastAction, scenario, devices, audioSettings,
                       fetchAudioDevicesInFlight, hooks,
                   peakCall, lastCall>>

StreamsNext ==
    \E stream \in Streams, w \in Windows, sr \in SampleRates : streamTick(stream, w, sr)

StreamsSpec == Init /\ [][StreamsNext]_vars

\* ------------------------------------------------------------------ the recorder hook
\* how many chunks ondataavailable delivers to one recording
MaxChunks == 1

\* new Blob(audioChunks, ...), kept by its size
BlobOf(audioChunks) == [size |-> audioChunks]

\* Log for an action whose payload is an object with the one field sessionId
LogArgument(type, sessionId, accepted) ==
    /\ lastAction' = [type |-> type, payload |-> <<sessionId>>, accepted |-> accepted]
    /\ scenario' = ScenarioStep(type, sessionId)

\* useAudioRecorder.startRecording with a stream and the permission at hand:
\* a fresh MediaRecorder and session id in recorderStateRef, mediaRecorder.start,
\* then dispatch(startRecordingAction({sessionId}))
recorderStartRecording(sessionId, now) ==
    /\ recorderStateRef' = [mediaRecorder |-> "recording", audioChunks |-> 0,
                            startTime |-> now, sessionId |-> Some(sessionId)]
    /\ IF ~canStartRecording(status)
       THEN /\ error' = Some("Cannot start recording: current state is " \o status)
            /\ UNCHANGED <<status, isRecording, isPaused, currentSession, currentMetrics>>
            /\ LogArgument("startRecording", sessionId, FALSE)
       ELSE IF isRecording
       THEN /\ error' = Some("Already recording")
            /\ UNCHANGED <<status, isRecording, isPaused, currentSession, currentMetrics>>
            /\ LogArgument("startRecording", sessionId, FALSE)
       ELSE /\ status' = "recording"
            /\ isRecording' = TRUE
            /\ isPaused' = FALSE
            /\ currentSession' = Some([id |-> sessionId, startTime |-> now, duration |-> 0,
                                       audioBlob |-> None, analysis |-> None])
            /\ error' = None
            /\ UNCHANGED currentMetrics
            /\ LogArgument("startRecording", sessionId, TRUE)
    /\ UNCHANGED <<initializeAudioInFlight, analyzeRecordingInFlight>>
    /\ UNCHANGED <<devices, audioSettings, fetchAudioDevicesInFlight, detector,
                   initializeAudioRequests>>

\* mediaRecorder.ondataavailable with event.data.size > 0
ondataavailable ==
    /\ recorderStateRef.mediaRecorder = "recording"
    /\ recorderStateRef.audioChunks < MaxChunks
    /\ recorderStateRef' = [recorderStateRef EXCEPT !.audioChunks = @ + 1]
    /\ UNCHANGED <<slice, initializeAudioInFlight, analyzeRecordingInFlight, lastAction,
                   scenario, devices, audioSettings, fetchAudioDevicesInFlight, detector,
                   initializeAudioRequests>>

\* useAudioRecorder.stopRecording: mediaRecorder.stop, the blob of the chunks
\* received so far, dispatch(stopRecordingAction({duration, audioBlob: blob}))
\* and, if (sessionId && blob.size > 0), dispatch(analyzeRecording(...))
recorderStopRecording(duration) ==
    LET blob == BlobOf(recorderStateRef.audioChunks)
        sessionId == recorderStateRef.sessionId
        analyzes == sessionId # None /\ blob.size > 0
        stops == canStopRecording(status) /\ isRecording
    IN  /\ recorderStateRef.mediaRecorder \notin {"null", "inactive"}
        /\ analyzes => InFlightTotal < MaxInFlight
        /\ recorderStateRef' = [recorderStateRef EXCEPT !.mediaRecorder = "inactive"]
        /\ IF ~canStopRecording(status)
           THEN /\ error' = Some("Cannot stop recording: current state is " \o status)
                /\ UNCHANGED <<status, isRecording, isPaused, currentSession, currentMetrics>>
           ELSE IF ~isRecording
           THEN /\ error' = Some("Not currently recording")
                /\ UNCHANGED <<status, isRecording, isPaused, currentSession, currentMetrics>>
           ELSE /\ status' = "analyzing"
                /\ isRecording' = FALSE
                /\ isPaused' = FALSE
                /\ currentSession' = IF HasSession
                                     THEN Some([Session EXCEPT !.duration = duration,
                                                               !.audioBlob = Some(blob)])
                                     ELSE currentSession
                /\ UNCHANGED <<currentMetrics, error>>
        /\ IF analyzes
           THEN /\ analyzeRecordingInFlight' =
                      [analyzeRecordingInFlight EXCEPT ![sessionId[1]] = @ + 1]
                /\ LogArgument("analyzeRecording/pending", sessionId[1], status' = "analyzing")
           ELSE /\ UNCHANGED analyzeRecordingInFlight
                /\ Log("stopRecording", <<duration, Some(blob)>>, stops)
        /\ UNCHANGED <<initializeAudioInFlight, devices, audioSettings,
                       fetchAudioDevicesInFlight, detector, initializeAudioRequests>>

\* a started analyzeRecording request settles, fulfilled or rejected: it is
\* in flight no longer
analyzeRecordingSettles ==
    \E s \in SessionIds :
        /\ analyzeRecordingInFlight[s] > 0
        /\ analyzeRecordingInFlight' = [analyzeRecordingInFlight EXCEPT ![s] = @ - 1]

RecorderNext ==
    \/ \E s \in SessionIds, t \in Times : recorderStartRecording(s, t)
    \/ ondataavailable
    \/ \E d \in Durations : recorderStopRecording(d)
    \/ \E s \in SessionIds : analyzeRecordingFulfilled(s)
    \/ \E s \in SessionIds, p \in RejectPayloads : analyzeRecordingRejected(s, p)

\* the recorder's actions happen or not as the user pleases; a request in
\* flight settles
RecorderSpec ==
    Init /\ [][RecorderNext]_vars /\ WF_analyzeRecordingInFlight(analyzeRecordingSettles)

\* ------------------------------------------------------------------ overlapping initializeAudio requests
\* dispatch(initializeAudio()) by one mounted recorder hook: the request is in
\* flight whether or not the pending reducer lets it move the status
initializeAudioRequestPending(requestId) ==
    /\ requestId \notin initializeAudioRequests.inFlight
    /\ initializeAudioInFlight' = initializeAudioInFlight + 1
    /\ IF ~canInitialize(status)
       THEN /\ UNCHANGED slice
            /\ initializeAudioRequests' =
                  [initializeAudioRequests EXCEPT !.inFlight = @ \cup {requestId}]
            /\ Log("initializeAudio/pending", None, FALSE)
       ELSE /\ status' = "initializing"
            /\ error' = None
            /\ UNCHANGED <<isRecording, isPaused, currentSession, currentMetrics>>
            /\ initializeAudioRequests' =
                  [initializeAudioRequests EXCEPT !.inFlight = @ \cup {requestId},
                                                  !.owner = Some(requestId)]
            /\ Log("initializeAudio/pending", None, TRUE)
    /\ UNCHANGED analyzeRecordingInFlight
    /\ UNCHANGED <<devices, audioSettings, fetchAudioDevicesInFlight, detector,
                   recorderStateRef>>

initializeAudioRequestFulfilled(requestId) ==
    /\ requestId \in initializeAudioRequests.inFlight
    /\ initializeAudioInFlight' = initializeAudioInFlight - 1
    /\ initializeAudioRequests' =
          [initializeAudioRequests EXCEPT !.inFlight = @ \ {requestId},
                                          !.settled = Some(requestId)]
    /\ IF status # "initializing"
       THEN /\ UNCHANGED slice
            /\ Log("initializeAudio/fulfilled", None, FALSE)
       ELSE /\ status' = "idle"
            /\ error' = None
            /\ UNCHANGED <<isRecording, isPaused, currentSession, currentMetrics>>
            /\ Log("initializeAudio/fulfilled", None, TRUE)
    /\ UNCHANGED analyzeRecordingInFlight
    /\ UNCHANGED <<devices, audioSettings, fetchAudioDevicesInFlight, detector,
                   recorderStateRef>>

initializeAudioRequestRejected(requestId, payload) ==
    /\ requestId \in initializeAudioRequests.inFlight
    /\ initializeAudioInFlight' = initializeAudioInFlight - 1
    /\ initializeAudioRequests' =
          [initializeAudioRequests EXCEPT !.inFlight = @ \ {requestId},
                                          !.settled = Some(requestId)]
    /\ IF status # "initializing"
       THEN /\ UNCHANGED slice
            /\ Log("initializeAudio/rejected", payload, FALSE)
       ELSE /\ status' = "error"
            /\ error' = Some(OrDefault(payload, "Failed to initialize audio"))
            /\ UNCHANGED <<isRecording, isPaused, currentSession, currentMetrics>>
            /\ Log("initializeAudio/rejected", payload, TRUE)
    /\ UNCHANGED analyzeRecordingInFlight
    /\ UNCHANGED <<devices, audioSettings, fetchAudioDevicesInFlight, detector,
                   recorderStateRef>>

RequestsNext ==
    \/ \E r \in RequestIds : initializeAudioRequestPending(r)
    \/ \E r \in RequestIds : initializeAudioRequestFulfilled(r)
    \/ \E r \in RequestIds, p \in RejectPayloads : initializeAudioRequestRejected(r, p)

RequestsSpec == Init /\ [][RequestsNext]_vars

\* ------------------------------------------------------------------ findPeak on its own
\* the autocorrelation arrays findPeak is applied to, with a zero-lag value
\* that is zero, below or at the greatest value of the array
CorrelationValues == {-1, 0, 1, 2}

Autocorrelations ==
    UNION {{a \in [0..(sr \div MIN_FREQUENCY - 1) -> CorrelationValues] : a[0] >= 0} :
              sr \in SampleRates}

PeakInit ==
    /\ InitBase
    /\ peakCall \in {[NoPeakCall EXCEPT !.autocorrelation = a] : a \in Autocorrelations}
    /\ lastCall = NoCall

findPeakCall(sampleRate) ==
    /\ ~peakCall.done
    /\ peakCall' = [peakCall EXCEPT !.done = TRUE,
                                     !.result = findPeak(peakCall.autocorrelation, sampleRate)]
    /\ UNCHANGED <<slice, initializeAudioInFlight, analyzeRecordingInFlight,
                   lastAction, scenario, devices, audioSettings,
                   fetchAudioDevicesInFlight, hooks,
                   smoothingBuffer, pushed, lastTick, lastCall, ownBuffer>>

\* what detectPitch makes of the peak found, and what calculateMetrics puts
\* in the metrics record at the given sensitivity
emitPitch(sampleRate, sensitivity) ==
    LET a == peakCall.autocorrelation
        found == [silent |-> FALSE, peak |-> peakCall.result,
                  frequency |-> IF peakCall.result = None THEN 0
                                ELSE frequencyAt(a, peakCall.result[1].index, sampleRate)]
        out == pitchFrom(smoothingBuffer, found, TRUE)
        pitch == IF out.result = None THEN None
                 ELSE IF out.result[1].confidence >= thresholds[sensitivity]
                 THEN out.result
                 ELSE None
    IN  /\ peakCall.done
        /\ ~peakCall.reported
        /\ peakCall' = [peakCall EXCEPT !.reported = TRUE,
                                         !.sensitivity = sensitivity,
                                         !.emitted = pitch]
        /\ smoothingBuffer' = out.buffer
        /\ pushed' = remember(pushed, out, TRUE)
        /\ UNCHANGED <<slice, initializeAudioInFlight, analyzeRecordingInFlight,
                       lastAction, scenario, devices, audioSettings,
                       fetchAudioDevicesInFlight, hooks,
                   lastTick, lastCall, ownBuffer>>

PeakNext ==
    \/ \E sr \in SampleRates : findPeakCall(sr)
    \/ \E sr \in SampleRates, s \in Sensitivities : emitPitch(sr, s)

PeakSpec == PeakInit /\ [][PeakNext]_vars

\* ------------------------------------------------------------------ stateless utilities
\* A frequency is given by its place on the logarithmic scale:
\* log2(frequency / A4_FREQUENCY) in units of 1/OctaveUnit, so A4 is 0 and
\* the A one octave above is OctaveUnit.
OctaveUnit == 12000
SEMITONES_PER_OCTAVE == 12
NOTE_NAMES == <<"C", "C#", "D", "D#", "E", "F", "F#", "G", "G#", "A", "A#", "B">>

\* how many semitones below and above A4 the frequencies of the calls reach
MaxSemitones == 30

Frequencies ==
    (-(MaxSemitones * OctaveUnit) \div SEMITONES_PER_OCTAVE)
        ..((MaxSemitones * OctaveUnit) \div SEMITONES_PER_OCTAVE)

\* Math.round of x / unit: the nearest integer, a half rounded up
MathRound(x, unit) == (2 * x + unit) \div (2 * unit)

\* the % of the language: the remainder carries the sign of the dividend
Remainder(a, b) == IF a >= 0 THEN a % b ELSE -((-a) % b)

\* `${n}` for an integer of at most two digits
DecimalString(n) ==
    LET digit == <<"0", "1", "2", "3", "4", "5", "6", "7", "8", "9">>
        m == Abs(n)
        text == IF m < 10 THEN digit[m + 1]
                ELSE digit[(m \div 10) + 1] \o digit[(m % 10) + 1]
    IN  IF n < 0 THEN "-" \o text ELSE text

\* mutant: the semitone is rounded down
nearestSemitoneFloor(semitonesFromA4) == semitonesFromA4 \div OctaveUnit

\* Math.round(semitonesFromA4), semitonesFromA4 being in units of 1/OctaveUnit
nearestSemitoneOf(semitonesFromA4) == MathRound(semitonesFromA4, OctaveUnit)

\* mutant: the octave offset is truncated towards zero
octaveOfTruncated(nearestSemitone) ==
    LET a4Index == 9
        a4Octave == 4
        sum == a4Index + nearestSemitone
    IN  a4Octave + (IF sum >= 0 THEN sum \div SEMITONES_PER_OCTAVE
                    ELSE -((-sum) \div SEMITONES_PER_OCTAVE))

\* a4Octave + Math.floor((a4Index + nearestSemitone) / SEMITONES_PER_OCTAVE)
octaveOf(nearestSemitone) ==
    LET a4Index == 9
        a4Octave == 4
    IN  a4Octave + ((a4Index + nearestSemitone) \div SEMITONES_PER_OCTAVE)

frequencyToNote(frequency) ==
    LET semitonesFromA4 == SEMITONES_PER_OCTAVE * frequency
        nearestSemitone == nearestSemitoneOf(semitonesFromA4)
        cents == MathRound((semitonesFromA4 - nearestSemitone * OctaveUnit) * 100, OctaveUnit)
        a4Index == 9
        noteIndex == Remainder(a4Index + nearestSemitone, SEMITONES_PER_OCTAVE)
        normalizedNoteIndex ==
            IF noteIndex >= 0 THEN noteIndex ELSE noteIndex + SEMITONES_PER_OCTAVE
        octave == octaveOf(nearestSemitone)
        noteName == NOTE_NAMES[normalizedNoteIndex + 1]
    IN  [note |-> noteName \o DecimalString(octave),
         cents |-> cents,
         frequency |-> frequency,
         octave |-> octave]

\* a Uint8Array of magnitudes is a function on 0..n-1 with values in 0..255;
\* decibels are whole numbers, rounded down to the decade
ByteValues == {0, 1, 16, 255}
MaxBins == 3

VolumeBuffers == UNION {[0..(n - 1) -> ByteValues] : n \in 0..MaxBins}

\* 10 * floor(log10(numerator / denominator)) for 0 < numerator <= denominator
TenLog10(numerator, denominator) ==
    LET power[k \in 0..9] == IF k = 0 THEN 1 ELSE 10 * power[k - 1]
        decades[k \in 0..9] ==
            IF k = 9 \/ numerator * power[k] >= denominator THEN k ELSE decades[k + 1]
    IN  -10 * decades[0]

\* mutant: silence is reported as 0 dB
getVolumeSilentIsZero(buffer) ==
    LET sumSquares == SumOver([i \in DOMAIN buffer |-> buffer[i] * buffer[i]])
        count == Length(buffer)
    IN  IF count = 0 THEN 0
        ELSE IF sumSquares = 0 THEN 0
        ELSE LET db == TenLog10(sumSquares, 255 * 255 * count)
             IN  IF db > 0 THEN 0 ELSE IF db < -100 THEN -100 ELSE db

\* sumSquares carries the square of the scale 255 that the source divides by;
\* 20 * log10(rms) is 10 * log10(sumSquares / count)
getVolume(buffer) ==
    LET sumSquares == SumOver([i \in DOMAIN buffer |-> buffer[i] * buffer[i]])
        count == Length(buffer)
    IN  IF count = 0 THEN -100
        ELSE IF sumSquares = 0 THEN -100
        ELSE LET db == TenLog10(sumSquares, 255 * 255 * count)
             IN  IF db > 0 THEN 0 ELSE IF db < -100 THEN -100 ELSE db

UtilityInit ==
    /\ InitBase
    /\ peakCall = NoPeakCall
    /\ \/ lastCall \in {[fn |-> "frequencyToNote", done |-> FALSE, argument |-> f, result |-> None] :
                            f \in Frequencies}
       \/ lastCall \in {[fn |-> "getVolume", done |-> FALSE, argument |-> b, result |-> None] :
                            b \in VolumeBuffers}

frequencyToNoteCall ==
    /\ lastCall.fn = "frequencyToNote"
    /\ ~lastCall.done
    /\ lastCall' = [lastCall EXCEPT !.done = TRUE,
                                     !.result = Some(frequencyToNote(lastCall.argument))]
    /\ UNCHANGED <<slice, initializeAudioInFlight, analyzeRecordingInFlight,
                   lastAction, scenario, devices, audioSettings,
                   fetchAudioDevicesInFlight, hooks,
                   smoothingBuffer, pushed, lastTick, peakCall,
                   ownBuffer>>

getVolumeCall ==
    /\ lastCall.fn = "getVolume"
    /\ ~lastCall.done
    /\ lastCall' = [lastCall EXCEPT !.done = TRUE,
                                     !.result = Some(getVolume(lastCall.argument))]
    /\ UNCHANGED <<slice, initializeAudioInFlight, analyzeRecordingInFlight,
                   lastAction, scenario, devices, audioSettings,
                   fetchAudioDevicesInFlight, hooks,
                   smoothingBuffer, pushed, lastTick, peakCall,
                   ownBuffer>>

UtilityNext ==
    \/ frequencyToNoteCall
    \/ getVolumeCall

UtilitySpec == UtilityInit /\ [][UtilityNext]_vars

\* ------------------------------------------------------------------ properties
Live == {"recording", "paused", "analyzing"}

\* the statuses each guarded action requires (the transition table)
RequiredStatus ==
    [t \in {"initialize", "initializeAudio/pending"} |-> {"idle", "error"}] @@
    [t \in {"initializeSuccess", "initializeError",
            "initializeAudio/fulfilled", "initializeAudio/rejected"} |-> {"initializing"}] @@
    [t \in {"startRecording"} |-> {"idle"}] @@
    [t \in {"pauseRecording"} |-> {"recording"}] @@
    [t \in {"resumeRecording"} |-> {"paused"}] @@
    [t \in {"stopRecording", "updateMetrics", "updateSessionDuration",
            "startAnalysis"} |-> {"recording", "paused"}] @@
    [t \in {"setAnalysis", "analyzeRecording/pending",
            "analyzeRecording/fulfilled", "analyzeRecording/rejected"} |-> {"analyzing"}]

UserActions == {"startRecording", "pauseRecording", "resumeRecording",
                "stopRecording", "startAnalysis"}

AnalysisSuccess == {"setAnalysis", "analyzeRecording/fulfilled"}

\* the message a rejected thunk leaves: its payload, or dflt when there is none
MessageOf(payload, dflt) ==
    IF payload = None THEN Some(dflt)
    ELSE IF payload[1] = "" THEN Some(dflt)
    ELSE payload

\* C1: a guarded action dispatched in a status outside its guard is a no-op:
\* status, currentSession, currentMetrics, isRecording and isPaused keep their
\* values (only the error message may change).
C1_RejectedIsNoOp ==
    [][ (lastAction'.type \in DOMAIN RequiredStatus
           /\ status \notin RequiredStatus[lastAction'.type])
        => UNCHANGED <<status, currentSession, currentMetrics, isRecording, isPaused>>
      ]_vars

\* a stopRecording with a new payload was rejected while a stopped session is analyzed
C1_Witness ==
    /\ lastAction.type = "stopRecording"
    /\ ~lastAction.accepted
    /\ status = "analyzing"
    /\ HasSession
    /\ <<Session.duration, Session.audioBlob>> # lastAction.payload
    /\ error = Some("Cannot stop recording: current state is analyzing")

\* C2 (as stated): a session exists if and only if status is Recording, Paused
\* or Analyzing.
C2_SessionIffLive == HasSession <=> status \in Live

\* C2 (amended): whenever status is Recording, Paused or Analyzing a session
\* exists; a finished session may remain in Idle or Error.
C2_LiveHasSession == status \in Live => HasSession

\* a stopped session is live while it is analyzed
C2_Witness ==
    /\ status = "analyzing"
    /\ HasSession
    /\ lastAction.type = "stopRecording"
    /\ lastAction.accepted

\* C3: startRecording dispatched outside Idle leaves the existing session
\* untouched and creates no second one; pauseRecording from Idle keeps Idle
\* and creates no session.
C3_AtMostOneSession ==
    [][ /\ (lastAction'.type = "startRecording" /\ status # "idle")
           => currentSession' = currentSession
        /\ (lastAction'.type = "pauseRecording" /\ status = "idle")
           => (status' = "idle" /\ currentSession' = currentSession)
      ]_vars

\* startRecording with another id was refused while a session is live
C3_Witness ==
    /\ lastAction.type = "startRecording"
    /\ ~lastAction.accepted
    /\ status \in Live
    /\ HasSession
    /\ Session.id # lastAction.payload

\* C4: an action dispatched in a status that satisfies its guard produces the
\* next status of the transition table (and the new session, or the message).
C4_TransitionTable ==
    [][ LET t == lastAction'.type
            p == lastAction'.payload
        IN  /\ (t \in {"initialize", "initializeAudio/pending"} /\ status \in {"idle", "error"})
               => status' = "initializing"
            /\ (t \in {"initializeSuccess", "initializeAudio/fulfilled"} /\ status = "initializing")
               => status' = "idle"
            /\ (t = "initializeError" /\ status = "initializing")
               => (status' = "error" /\ error' = Some(p))
            /\ (t = "initializeAudio/rejected" /\ status = "initializing")
               => (status' = "error" /\ error' = MessageOf(p, "Failed to initialize audio"))
            /\ (t = "startRecording" /\ status = "idle")
               => /\ status' = "recording"
                  /\ currentSession' # None
                  /\ currentSession'[1].id = p
                  /\ currentSession'[1].duration = 0
                  /\ currentSession'[1].audioBlob = None
                  /\ currentSession'[1].analysis = None
            /\ (t = "pauseRecording" /\ status = "recording") => status' = "paused"
            /\ (t = "resumeRecording" /\ status = "paused") => status' = "recording"
            /\ (t = "stopRecording" /\ status \in {"recording", "paused"})
               => status' = "analyzing"
            /\ (t \in AnalysisSuccess /\ status = "analyzing") => status' = "idle"
            /\ (t = "analyzeRecording/rejected" /\ status = "analyzing")
               => status' = "error"
            /\ (t = "clearError" /\ status = "error") => status' = "idle"
      ]_vars

\* a paused recording was stopped
C4_Witness ==
    /\ lastAction.type = "stopRecording"
    /\ lastAction.accepted
    /\ status = "analyzing"
    /\ scenario = 0
    /\ HasSession
    /\ Session.duration = 2500

\* C5 (as stated): status becomes Error only through an initialization failure
\* in Initializing or an analysis failure in Analyzing.
C5_ErrorOnlyFromAsyncFailure ==
    [][ (status # "error" /\ status' = "error")
        => \/ (lastAction'.type \in {"initializeError", "initializeAudio/rejected"}
                 /\ status = "initializing")
           \/ (lastAction'.type = "analyzeRecording/rejected" /\ status = "analyzing")
      ]_vars

\* C6: a user-triggered action that is rejected records an error message and
\* leaves the status as it was; it never moves a non-Error status to Error.
C6_RejectionNeverEscalates ==
    [][ (lastAction'.type \in UserActions /\ ~lastAction'.accepted)
        => /\ status' = status
           /\ error' # None
           /\ (status # "error" => status' # "error")
      ]_vars

\* startAnalysis was rejected in Idle and the machine is still Idle, with the message
C6_Witness ==
    /\ lastAction.type = "startAnalysis"
    /\ ~lastAction.accepted
    /\ status = "idle"
    /\ error = Some("Cannot analyze: current state is idle")

\* C7: from Idle with no session, startRecording("s1"), pauseRecording,
\* resumeRecording, stopRecording(5000, blob1), analysis success(result) passes
\* through Recording, Paused, Recording, Analyzing and ends in Idle with
\* session "s1" holding duration 5000, the blob and the result.
C7_Scenario ==
    /\ scenario = 1 => status = "recording"
    /\ scenario = 2 => status = "paused"
    /\ scenario = 3 => status = "recording"
    /\ scenario = 4 => status = "analyzing"
    /\ scenario = 5 =>
          /\ status = "idle"
          /\ HasSession
          /\ Session.id = "s1"
          /\ Session.duration = 5000
          /\ Session.audioBlob = Some("blob1")
          /\ Session.analysis = lastAction.payload

\* the whole scenario has just been played
C7_Witness == scenario = 5 /\ lastAction.type \in AnalysisSuccess

\* C8: a session's analysis becomes a result only through setAnalysis or
\* analyzeRecording.fulfilled received while status is Analyzing.
C8_AnalysisWrittenOnlyOnSuccess ==
    [][ ( /\ currentSession' # None
          /\ currentSession'[1].analysis # None
          /\ (currentSession = None
                \/ currentSession[1].analysis # currentSession'[1].analysis) )
        => (lastAction'.type \in AnalysisSuccess /\ status = "analyzing")
      ]_vars

\* a fulfilled analysis request has stored its result on the session
C8_Witness ==
    /\ lastAction.type = "analyzeRecording/fulfilled"
    /\ lastAction.accepted
    /\ HasSession
    /\ Session.analysis = lastAction.payload
    /\ status = "idle"

\* C9: an accepted stopRecording sets Analyzing and stamps duration and
\* audioBlob with its payload; afterwards (the status is never Recording or
\* Paused again for this session) no action changes the two fields until the
\* session is discarded or an accepted startRecording replaces it.
C9_StopFreezes ==
    [][ /\ (lastAction'.type = "stopRecording" /\ lastAction'.accepted)
           => /\ status \in {"recording", "paused"}
              /\ status' = "analyzing"
              /\ currentSession' # None
              /\ <<currentSession'[1].duration, currentSession'[1].audioBlob>>
                    = lastAction'.payload
        /\ (status \notin {"recording", "paused"} /\ status' \in {"recording", "paused"})
           => (lastAction'.type = "startRecording" /\ lastAction'.accepted)
        /\ ( /\ status \notin {"recording", "paused"}
             /\ currentSession # None
             /\ currentSession' # None
             /\ ~(lastAction'.type = "startRecording" /\ lastAction'.accepted) )
           => /\ currentSession'[1].duration = currentSession[1].duration
              /\ currentSession'[1].audioBlob = currentSession[1].audioBlob
      ]_vars

\* updateSessionDuration with another value was refused on a stopped session
C9_Witness ==
    /\ lastAction.type = "updateSessionDuration"
    /\ ~lastAction.accepted
    /\ status = "analyzing"
    /\ HasSession
    /\ Session.duration = 5000
    /\ Session.audioBlob = Some("blob1")
    /\ lastAction.payload = 2500

\* C10: an analysis failure received in Analyzing sets Error with the failure
\* message (the default message when none is given) and keeps the session
\* with its fields unchanged.
C10_AnalysisFailureKeepsSession ==
    [][ (lastAction'.type = "analyzeRecording/rejected" /\ status = "analyzing")
        => /\ status' = "error"
           /\ error' = MessageOf(lastAction'.payload, "Failed to analyze recording")
           /\ currentSession # None
           /\ currentSession' = currentSession
      ]_vars

\* an analysis request without a message failed on a stopped session
C10_Witness ==
    /\ lastAction.type = "analyzeRecording/rejected"
    /\ lastAction.accepted
    /\ lastAction.payload = None
    /\ status = "error"
    /\ error = Some("Failed to analyze recording")
    /\ HasSession
    /\ Session.audioBlob = Some("blob1")

\* C11: Error is not terminal. In Error, clearError leads to Idle with the
\* message cleared; in Idle and in Error, initialize leads to Initializing;
\* and in every reachable state some action leads to Idle.
C11_ErrorRecoverable ==
    /\ status = "error"
          => ENABLED (clearError /\ status' = "idle" /\ error' = None)
    /\ status \in {"idle", "error"}
          => ENABLED (initialize /\ status' = "initializing")
    /\ status = "idle" \/ ENABLED (Next /\ status' = "idle")

\* the machine is in Error after a failed analysis, the session still held
C11_Witness ==
    /\ status = "error"
    /\ lastAction.type = "analyzeRecording/rejected"
    /\ lastAction.accepted
    /\ HasSession

\* C12: after reset, dispatched in any status, the status is Idle, the session
\* is discarded, currentMetrics and error are null and both flags are false.
C12_ResetYieldsIdle ==
    lastAction.type = "reset"
        => /\ status = "idle"
           /\ currentSession = None
           /\ currentMetrics = None
           /\ error = None
           /\ isRecording = FALSE
           /\ isPaused = FALSE

\* reset was dispatched while the analysis of a stopped recording was in flight
C12_Witness ==
    /\ lastAction.type = "reset"
    /\ analyzeRecordingInFlight["s1"] = 1
    /\ status = "idle"
    /\ currentSession = None

\* C13 (as stated): after reset the whole slice equals initialState, the audio
\* settings and the devices included.
C13_ResetRestoresInitialState ==
    lastAction.type = "reset"
        => /\ slice = <<"idle", FALSE, FALSE, None, None, None>>
           /\ audioSettings = DEFAULT_AUDIO_SETTINGS
           /\ devices = [available |-> <<>>, selected |-> None]

\* C14: updateMetrics(m) in Recording or Paused sets currentMetrics to m and
\* changes nothing else; in any other status it changes nothing at all.
C14_UpdateMetricsFrame ==
    [][ lastAction'.type = "updateMetrics"
        => IF status \in {"recording", "paused"}
           THEN /\ currentMetrics' = Some(lastAction'.payload)
                /\ lastAction'.accepted
                /\ UNCHANGED <<status, currentSession, isRecording, isPaused, error>>
           ELSE /\ ~lastAction'.accepted
                /\ UNCHANGED slice
      ]_vars

\* metrics m2 have replaced earlier ones while the recording is paused
C14_Witness ==
    /\ lastAction.type = "updateMetrics"
    /\ lastAction.accepted
    /\ lastAction.payload = "m2"
    /\ currentMetrics = Some("m2")
    /\ status = "paused"

\* C15 (as stated): every change of status is an edge of VALID_STATE_TRANSITIONS.
C15_OnlyValidTransitions ==
    [][ status' # status => status' \in VALID_STATE_TRANSITIONS[status] ]_vars

\* ------------------------------------------------------------------ pitch detection properties
Ticks == {"detectPitch", "detectPitchWithSensitivity"}

InBand(frequency) ==
    /\ frequency >= MIN_FREQUENCY * FrequencyUnit
    /\ frequency <= MAX_FREQUENCY * FrequencyUnit

\* the mean of the squared samples is below 0.01 squared
Quiet(buffer) ==
    SumOver([i \in DOMAIN buffer |-> buffer[i] * buffer[i]]) * 10000
        < AmplitudeUnit * AmplitudeUnit * Length(buffer)

\* the last n elements of the sequence s (all of it when it is shorter)
LastOf(s, n) == IF Len(s) <= n THEN s ELSE SubSeq(s, Len(s) - n + 1, Len(s))

\* C16 (as stated): with smoothing enabled, the smoothing buffer is empty after
\* every tick that yields no pitch, whichever gate rejected it.
C16_RejectedTickClearsBuffer ==
    (/\ lastTick.call \in Ticks
     /\ lastTick.enableSmoothing
     /\ lastTick.result = None)
        => smoothingBuffer = <<>>

C19_NoOutOfBandContribution ==
    (/\ lastTick.call \in Ticks
     /\ lastTick.enableSmoothing
     /\ lastTick.result # None)
        => /\ InBand(lastTick.result[1].frequency)
           /\ \A i \in 1..Len(smoothingBuffer) : InBand(smoothingBuffer[i])

\* ------------------------------------------------------------------ peak selection properties
\* the lag the search for peaks starts at
FirstNegativeLag(a, sampleRate) ==
    LET negative == {i \in (sampleRate \div MAX_FREQUENCY)..(sampleRate \div MIN_FREQUENCY - 1) :
                        a[i] < 0}
    IN  IF negative = {}
        THEN sampleRate \div MAX_FREQUENCY
        ELSE CHOOSE i \in negative : \A j \in negative : i <= j

\* the strict local maxima from that lag up to floor(sampleRate/MIN_FREQUENCY)-2
QualifyingPeaks(a, sampleRate) ==
    {i \in FirstNegativeLag(a, sampleRate)..(sampleRate \div MIN_FREQUENCY - 2) :
        a[i] > a[i - 1] /\ a[i] > a[i + 1]}

C21_ConfidenceRange ==
    peakCall.reported =>
        LET a == peakCall.autocorrelation
            threshold == thresholds[peakCall.sensitivity]
        IN  /\ peakCall.emitted # None
                  => /\ threshold <= peakCall.emitted[1].confidence
                     /\ peakCall.emitted[1].confidence <= ConfidenceUnit
            /\ (peakCall.emitted # None /\ a[peakCall.result[1].index] > a[0])
                  => peakCall.emitted[1].confidence = ConfidenceUnit
            /\ (peakCall.result # None /\ a[0] <= 0)
                  => peakCall.result[1].confidence = 0
            /\ (/\ peakCall.result # None
                /\ a[0] > 0
                /\ a[peakCall.result[1].index] * ConfidenceUnit < threshold * a[0])
                  => peakCall.emitted = None

\* the peak was twice the zero-lag value and the record carries confidence 1
C21_Witness ==
    /\ peakCall.reported
    /\ peakCall.emitted # None
    /\ peakCall.autocorrelation[peakCall.result[1].index] > peakCall.autocorrelation[0]
    /\ peakCall.autocorrelation[0] > 0
    /\ peakCall.emitted[1].confidence = ConfidenceUnit

\* ------------------------------------------------------------------ note mapping and loudness properties
NoteCalled == lastCall.fn = "frequencyToNote" /\ lastCall.done

\* n is a nearest integer semitone offset of the frequency f from A4
NearestSemitone(f, n) ==
    /\ SEMITONES_PER_OCTAVE * f - n * OctaveUnit <= OctaveUnit \div 2
    /\ n * OctaveUnit - SEMITONES_PER_OCTAVE * f <= OctaveUnit \div 2

Offsets == (-(MaxSemitones + 1))..(MaxSemitones + 1)

\* C22: a frequency whose nearest semitone offset from A4 is n maps to the note
\* name of index (9 + n) mod 12 and to octave 4 + floor((9 + n) / 12), for
\* negative n too; A4 itself gives A4, cents 0, octave 4, and the A an octave
\* above gives A5, cents 0, octave 5.
C22_NoteAndOctave ==
    NoteCalled =>
        LET f == lastCall.argument
            r == lastCall.result[1]
        IN  /\ \E n \in Offsets :
                  /\ NearestSemitone(f, n)
                  /\ r.octave = 4 + ((9 + n) \div 12)
                  /\ r.note = NOTE_NAMES[((9 + n) % 12) + 1] \o DecimalString(r.octave)
            /\ f = 0 => (r.note = "A4" /\ r.cents = 0 /\ r.octave = 4)
            /\ f = OctaveUnit => (r.note = "A5" /\ r.cents = 0 /\ r.octave = 5)

\* a frequency more than an octave and a half below A4, between two octaves of C
C22_Witness ==
    /\ NoteCalled
    /\ lastCall.argument < 0
    /\ lastCall.result[1].octave = 2
    /\ lastCall.result[1].note = "F#2"

\* C23: the cents of frequencyToNote lie in -50..50 and are 100 times the
\* distance of the exact semitone offset from the nearest semitone, rounded.
C23_CentsRange ==
    NoteCalled =>
        LET f == lastCall.argument
            r == lastCall.result[1]
        IN  /\ r.cents >= -50
            /\ r.cents <= 50
            /\ \E n \in Offsets :
                  /\ NearestSemitone(f, n)
                  /\ 2 * Abs(r.cents * OctaveUnit - 100 * (SEMITONES_PER_OCTAVE * f - n * OctaveUnit))
                        <= OctaveUnit

\* a frequency just under half a semitone above a note is 50 cents sharp
C23_Witness ==
    /\ NoteCalled
    /\ lastCall.result[1].cents = 50
    /\ lastCall.result[1].note = "C4"

VolumeCalled == lastCall.fn = "getVolume" /\ lastCall.done

\* C24: getVolume returns a value in -100..0, exactly -100 for an empty or
\* all-zero buffer, and 0 for a buffer that is 255 throughout.
C24_VolumeRange ==
    VolumeCalled =>
        LET b == lastCall.argument
            r == lastCall.result[1]
        IN  /\ r >= -100
            /\ r <= 0
            /\ (\A i \in DOMAIN b : b[i] = 0) => r = -100
            /\ (DOMAIN b # {} /\ \A i \in DOMAIN b : b[i] = 255) => r = 0

\* an all-zero buffer of the greatest length gave -100
C24_Witness ==
    /\ VolumeCalled
    /\ Length(lastCall.argument) = MaxBins
    /\ \A i \in DOMAIN lastCall.argument : lastCall.argument[i] = 0
    /\ lastCall.result[1] = -100

\* ------------------------------------------------------------------ ownership of the smoothing buffer
\* C25: the smoothing buffer belongs to one detector and is never shared: what
\* detectPitch reports for a stream depends only on that stream's own earlier
\* windows, so two users of the detector in one context never influence each
\* other's reported pitch.
C25_StreamIsolation ==
    lastTick.call = "detectPitch" => lastTick.result = lastTick.alone

\* ------------------------------------------------------------------ flags, sessions and requests
\* the messages of the secondary flag checks of the four recording reducers
FlagCheckMessages ==
    {"Already recording", "Not currently recording", "Already paused", "Not currently paused"}

\* C26: isRecording is true exactly when the status is recording or paused, and
\* isPaused exactly when it is paused; so the flag checks that follow the status
\* guards of startRecording, pauseRecording, resumeRecording and stopRecording
\* are never taken.
C26_FlagsFollowStatus ==
    /\ isRecording <=> status \in {"recording", "paused"}
    /\ isPaused <=> status = "paused"
    /\ \A m \in FlagCheckMessages : error # Some(m)

\* a paused recording was resumed: the status guard and the flag check both passed
C26_Witness ==
    /\ lastAction.type = "resumeRecording"
    /\ lastAction.accepted
    /\ status = "recording"
    /\ isRecording
    /\ ~isPaused

\* C27: while the status is recording, paused or analyzing a session exists; the
\* branches of stopRecording, setAnalysis, startAnalysis and
\* analyzeRecording.fulfilled that find no active session, which are entered
\* only in those statuses, are therefore unreachable, and the message of
\* startAnalysis's branch is never stored.
C27_NoSessionBranchesUnreachable ==
    /\ status \in {"recording", "paused", "analyzing"} => currentSession # None
    /\ error # Some("No active recording session")

\* startAnalysis passed its session check and the session is still there
C27_Witness ==
    /\ lastAction.type = "startAnalysis"
    /\ lastAction.accepted
    /\ status = "analyzing"
    /\ currentSession # None

\* C28: an analysis result is stored only on the session it was computed for:
\* when analyzeRecording.fulfilled stores its payload, the payload is the result
\* of the request made with the id of the session that receives it, whatever
\* was dispatched while the request was in flight.
C28_AnalysisOnOwnSession ==
    ( /\ lastAction.type = "analyzeRecording/fulfilled"
      /\ lastAction.accepted
      /\ currentSession # None )
        => currentSession[1].analysis = Some(mockAnalysis(currentSession[1].id))

\* C29: once the recorder hook's stopRecording has moved the status to
\* analyzing, the status eventually becomes idle or error with no further user
\* action, given that every started analysis request settles; for every
\* recording, one with an empty blob included.
C29_AnalyzingEventuallyLeft ==
    (status = "analyzing") ~> (status \in {"idle", "error"})

\* C30: a completion of an initializeAudio request changes the status only if
\* it is the completion of the request whose pending event moved the status to
\* initializing; with requests overlapping, the completion of another request
\* never ends that initialization, and the failure of the owning request is
\* never lost.
C30_CompletionBelongsToOwner ==
    LET completed == lastAction.type \in {"initializeAudio/fulfilled", "initializeAudio/rejected"}
        byOwner == initializeAudioRequests.settled = initializeAudioRequests.owner
    IN  /\ (completed /\ lastAction.accepted) => byOwner
        /\ (lastAction.type = "initializeAudio/rejected" /\ byOwner) => lastAction.accepted
====
